---- MODULE Spec2Model ----
(***************************************************************************)
(* VirtuPiano: the input-to-note-to-sound pipeline of PianoKeyboard.js.    *)
(*                                                                         *)
(* The model follows the first PianoKeyboard component of the file (lines  *)
(* 1-287): the note registry, the key-code lookup, the useSynth hook with  *)
(* its table of oscillators, and the five input handlers of the component. *)
(* Every handler is one atomic step: JavaScript runs a handler to its end  *)
(* on the event loop, and React commits the state update before the next   *)
(* input event is dispatched, so a handler's closure reads the activeKeys  *)
(* the previous handler left.                                              *)
(*                                                                         *)
(* Strings whose characters the code inspects (key codes, key characters)  *)
(* are sequences of one-character strings; note names are plain strings.   *)
(***************************************************************************)
EXTENDS Integers, Sequences, FiniteSets, TLC

\* Number of registry entries (from index 0) the input events are drawn from.
NumKeys == 2

\* Number of oscillator objects that may be alive (not yet garbage) at once.
MaxOscillators == 2

\* Longest note name given to noteNameToMidi.
MaxNameLen == 3

(***************************************************************************)
(* Note registry                                                           *)
(***************************************************************************)
KEYBOARD_NOTE_MAP ==
  << [note |-> "C4",  label |-> "C",  key |-> "Q", type |-> "white"],
     [note |-> "C#4", label |-> "C#", key |-> "2", type |-> "black"],
     [note |-> "D4",  label |-> "D",  key |-> "W", type |-> "white"],
     [note |-> "D#4", label |-> "D#", key |-> "3", type |-> "black"],
     [note |-> "E4",  label |-> "E",  key |-> "E", type |-> "white"],
     [note |-> "F4",  label |-> "F",  key |-> "R", type |-> "white"],
     [note |-> "F#4", label |-> "F#", key |-> "5", type |-> "black"],
     [note |-> "G4",  label |-> "G",  key |-> "T", type |-> "white"],
     [note |-> "G#4", label |-> "G#", key |-> "6", type |-> "black"],
     [note |-> "A4",  label |-> "A",  key |-> "Y", type |-> "white"],
     [note |-> "A#4", label |-> "A#", key |-> "7", type |-> "black"],
     [note |-> "B4",  label |-> "B",  key |-> "U", type |-> "white"] >>

\* KEYBOARD_NOTE_MAP[idx] of the source, whose indices start at 0.
Entry(idx) == KEYBOARD_NOTE_MAP[idx + 1]

Indices == 0 .. (Len(KEYBOARD_NOTE_MAP) - 1)

NoteNames == { Entry(i).note : i \in Indices }

(***************************************************************************)
(* Note names, MIDI numbers and frequencies                                *)
(***************************************************************************)
\* The characters of the registry's note names.
Spelling(note) ==
  CASE note = "C4"  -> << "C", "4" >>
    [] note = "C#4" -> << "C", "#", "4" >>
    [] note = "D4"  -> << "D", "4" >>
    [] note = "D#4" -> << "D", "#", "4" >>
    [] note = "E4"  -> << "E", "4" >>
    [] note = "F4"  -> << "F", "4" >>
    [] note = "F#4" -> << "F", "#", "4" >>
    [] note = "G4"  -> << "G", "4" >>
    [] note = "G#4" -> << "G", "#", "4" >>
    [] note = "A4"  -> << "A", "4" >>
    [] note = "A#4" -> << "A", "#", "4" >>
    [] note = "B4"  -> << "B", "4" >>

\* const notes = ["C", "C#", ..., "B"]
notes == << << "C" >>, << "C", "#" >>, << "D" >>, << "D", "#" >>, << "E" >>,
            << "F" >>, << "F", "#" >>, << "G" >>, << "G", "#" >>, << "A" >>,
            << "A", "#" >>, << "B" >> >>

Digits == << "0", "1", "2", "3", "4", "5", "6", "7", "8", "9" >>

IsDigit(c) == \E k \in 1..Len(Digits) : Digits[k] = c

\* parseInt(octaveS, 10) of the one digit the pattern captures.
parseInt(d) == (CHOOSE k \in 1..Len(Digits) : Digits[k] = d) - 1

\* Array.prototype.indexOf: the first position from 0, -1 when absent.
indexOf(seq, x) ==
  IF \E k \in 1..Len(seq) : seq[k] = x
    THEN (CHOOSE k \in 1..Len(seq) :
            seq[k] = x /\ \A j \in 1..Len(seq) : seq[j] = x => k <= j) - 1
    ELSE -1

\* note.match(/^([A-G]#?)(\d)$/): the two groups, << >> for null.
match(note) ==
  IF /\ Len(note) = 2
     /\ note[1] \in {"A", "B", "C", "D", "E", "F", "G"}
     /\ IsDigit(note[2])
    THEN << << note[1] >>, << note[2] >> >>
  ELSE IF /\ Len(note) = 3
          /\ note[1] \in {"A", "B", "C", "D", "E", "F", "G"}
          /\ note[2] = "#"
          /\ IsDigit(note[3])
    THEN << << note[1], "#" >>, << note[3] >> >>
  ELSE << >>

\* The octave taken without the offset of one: C4 = 48.
noteNameToMidi_NoOctaveOffset(note) ==
  LET m == match(note) IN
  IF m = << >> THEN 60
  ELSE 12 * parseInt(m[2][1]) + indexOf(notes, m[1])

noteNameToMidi(note) ==
  LET m == match(note) IN
  IF m = << >> THEN 60 \* fallback
  ELSE 12 * (parseInt(m[2][1]) + 1) + indexOf(notes, m[1])

\* 440 * Math.pow(2, (midi - 69) / 12), kept as hz * 2^(twelfths/12): it is
\* hz exactly when twelfths is 0 and only then.
noteToFrequency(note) ==
  [hz |-> 440, twelfths |-> noteNameToMidi(note) - 69]

(***************************************************************************)
(* Layout of the black keys                                                *)
(***************************************************************************)
\* KEYBOARD_NOTE_MAP ... .filter((keyObj) => keyObj.type === "white")
IsWhite(item) == item.type = "white"

whiteKeys == SelectSeq(KEYBOARD_NOTE_MAP, IsWhite)

blackKeyToWhiteLeftIdx ==
  [note \in {"C#4", "D#4", "F#4", "G#4", "A#4"} |->
     CASE note = "C#4" -> 0
       [] note = "D#4" -> 1
       [] note = "F#4" -> 3
       [] note = "G#4" -> 4
       [] note = "A#4" -> 5]

\* Fractions num/den, as the code's arithmetic on percentages produces them.
Frac(num, den) == [num |-> num, den |-> den]

Times(k, f) == Frac(k * f.num, f.den)

Minus(f, g) == Frac(f.num * g.den - g.num * f.den, f.den * g.den)

Half(f) == Frac(f.num, f.den * 2)

\* return null
Null == Frac(-1, 0)

\* The left offset, in percent of the keyboard's width, of a black key.
getBlackKeyOffset(note) ==
  LET keyWidthPercent == Frac(100, Len(whiteKeys)) IN
  IF note \notin DOMAIN blackKeyToWhiteLeftIdx THEN Null
  ELSE LET leftWhiteIdx == blackKeyToWhiteLeftIdx[note]
           halfWhite    == Half(keyWidthPercent)
       IN  Minus(Times(leftWhiteIdx + 1, keyWidthPercent), halfWhite)

\* left: calc(${offsetPercent}% - var(--black-key-width)/2): the place of
\* the left edge, as percent of the width plus black-key widths.
styleLeft(offsetPercent) ==
  [percent |-> offsetPercent, blackKeyWidths |-> Frac(-1, 2)]

\* .piano-key.black { position: absolute; width: var(--black-key-width) }:
\* the centre is half a black-key width to the right of the left edge.
blackKeyCentre(left) ==
  [percent |-> left.percent,
   blackKeyWidths |-> Minus(left.blackKeyWidths, Frac(-1, 2))]

(***************************************************************************)
(* Key-code lookup                                                         *)
(***************************************************************************)
LowerCase == << "a","b","c","d","e","f","g","h","i","j","k","l","m",
                "n","o","p","q","r","s","t","u","v","w","x","y","z" >>
UpperCase == << "A","B","C","D","E","F","G","H","I","J","K","L","M",
                "N","O","P","Q","R","S","T","U","V","W","X","Y","Z" >>

\* String.prototype.toUpperCase on one character.
UpperChar(c) ==
  IF \E i \in 1..Len(LowerCase) : LowerCase[i] = c
    THEN UpperCase[CHOOSE i \in 1..Len(LowerCase) : LowerCase[i] = c]
    ELSE c

\* The string left as typed.
toUpperCase_Identity(s) == s

toUpperCase(s) == [i \in 1..Len(s) |-> UpperChar(s[i])]

startsWith(s, prefix) ==
  /\ Len(s) >= Len(prefix)
  /\ SubSeq(s, 1, Len(prefix)) = prefix

slice(s, n) == SubSeq(s, n + 1, Len(s))

\* code.slice(-1) whatever the code starts with.
codeToKeyChar_LastChar(code) == slice(code, Len(code) - 1)

codeToKeyChar(code) ==
  IF startsWith(code, <<"K","e","y">>) THEN slice(code, 3)
  ELSE IF startsWith(code, <<"D","i","g","i","t">>) THEN slice(code, 5)
  ELSE <<>>

\* A lookup that counts the registry entries from 1.
getNoteIndexFromKey_OneBased(key) ==
  IF key = <<>> THEN -1
  ELSE LET upper == toUpperCase(key)
           hits  == { i \in Indices : toUpperCase(<<Entry(i).key>>) = upper }
       IN  IF hits = {} THEN -1
           ELSE 1 + CHOOSE i \in hits : \A j \in hits : i <= j

\* Array.prototype.findIndex: the first index that matches, -1 when none does.
getNoteIndexFromKey(key) ==
  IF key = <<>> THEN -1
  ELSE LET upper == toUpperCase(key)
           hits  == { i \in Indices : toUpperCase(<<Entry(i).key>>) = upper }
       IN  IF hits = {} THEN -1
           ELSE CHOOSE i \in hits : \A j \in hits : i <= j

(***************************************************************************)
(* State                                                                   *)
(***************************************************************************)
VARIABLES
  activeKeys,   \* useState(new Set()): the registry indices that are pressed
  audioCtxRef,  \* useRef(null): "null" or "ctx"
  oscillators,  \* useRef({}): note name -> oscillator, keys added and deleted
  oscs,         \* the oscillator objects: state and the note its onended closes over
  calls,        \* the calls and table deletions the last step made, in order
  threw,        \* the last step ended with an uncaught exception
  last          \* the last step: which handler ran, on what input

vars == << activeKeys, audioCtxRef, oscillators, oscs, calls, threw, last >>

OscIds == 1 .. MaxOscillators

Unused == [state |-> "unused", note |-> ""]

\* One call made by a handler: function name, note argument, number argument.
Call(fn, note, n) == << fn, note, n >>

\* What a step processed: the handler, its input, activeKeys when it began
\* (before), and the handler of the step just before it when that step was
\* for the same key, or was the pointer press a release-all ends (after, ""
\* otherwise), and whether a note-down follows a step that stopped an
\* oscillator of its note (stopped).
Event(op, code, idx, osc) ==
  [op |-> op, code |-> code, idx |-> idx, osc |-> osc,
   before |-> activeKeys,
   after |-> IF idx # -1 /\ last.idx = idx THEN last.op
             ELSE IF op = "handleGlobalPointerUp"
                       /\ last.op = "handlePointerDown" THEN last.op
             ELSE "",
   stopped |-> /\ op \in {"handleKeyDown", "handlePointerDown"}
               /\ idx \in 0 .. (Len(KEYBOARD_NOTE_MAP) - 1)
               /\ \E k \in 1..Len(calls) :
                    /\ calls[k][1] = "osc.stop"
                    /\ calls[k][2] = KEYBOARD_NOTE_MAP[idx + 1].note]

Init ==
  /\ activeKeys = {}
  /\ audioCtxRef = "null"
  /\ oscillators = << >>
  /\ oscs = [o \in OscIds |-> Unused]
  /\ calls = << >>
  /\ threw = FALSE
  /\ last = [op |-> "mount", code |-> << >>, idx |-> -1, osc |-> 0,
             before |-> {}, after |-> "", stopped |-> FALSE]

(***************************************************************************)
(* useSynth: one oscillator per note                                       *)
(*                                                                         *)
(* The hook's operations are functions of the synth state S, a record of   *)
(* ctx (audioCtxRef.current), table (oscillators.current) and oscs (the    *)
(* oscillator objects); they return the new state with the calls made and  *)
(* whether an exception escaped.                                           *)
(***************************************************************************)
Synth == [ctx |-> audioCtxRef, table |-> oscillators, oscs |-> oscs]

\* oscillators.current = { [note]: osc }: the other entries dropped.
Put_Alone(table, note, osc) == [n \in {note} |-> osc]

\* oscillators.current[note] = osc
Put(table, note, osc) ==
  [n \in (DOMAIN table) \cup {note} |-> IF n = note THEN osc ELSE table[n]]

\* delete oscillators.current[note]
Delete(table, note) == [n \in (DOMAIN table) \ {note} |-> table[n]]

\* The oscillator object ctx.createOscillator() returns: one not in use.
NewOsc(os) ==
  CHOOSE o \in OscIds :
    /\ os[o].state = "unused"
    /\ \A p \in OscIds : os[p].state = "unused" => o <= p

\* The model has an oscillator object left for play(note) to create.
Fits(note) ==
  \/ note \in DOMAIN oscillators
  \/ \E o \in OscIds : oscs[o].state = "unused"

\* getCtx without the test of audioCtxRef.current: a new context each time.
getCtx_AlwaysNew(S) ==
  [ctx |-> "ctx", calls |-> << Call("new AudioContext", "", -1) >>]

getCtx(S) ==
  IF S.ctx = "null"
    THEN [ctx |-> "ctx", calls |-> << Call("new AudioContext", "", -1) >>]
    ELSE [ctx |-> S.ctx, calls |-> << >>]

\* play without the "already playing" return.
play_NoEarlyReturn(S, note) ==
  LET c == getCtx(S) IN
  IF \A o \in OscIds : S.oscs[o].state # "unused"
    THEN [ctx |-> c.ctx, table |-> S.table, oscs |-> S.oscs,
          calls |-> c.calls, threw |-> FALSE]
    ELSE LET osc == NewOsc(S.oscs) IN
         [ctx   |-> c.ctx,
          table |-> Put(S.table, note, osc),
          oscs  |-> [S.oscs EXCEPT ![osc] = [state |-> "playing", note |-> note]],
          calls |-> c.calls \o << Call("createOscillator", note, osc) >>,
          threw |-> FALSE]

play(S, note) ==
  LET c == getCtx(S) IN
  IF note \in DOMAIN S.table
    THEN \* Already playing this note.
         [ctx |-> c.ctx, table |-> S.table, oscs |-> S.oscs,
          calls |-> c.calls, threw |-> FALSE]
    ELSE LET osc == NewOsc(S.oscs) IN
         [ctx   |-> c.ctx,
          table |-> Put(S.table, note, osc),
          oscs  |-> [S.oscs EXCEPT ![osc] = [state |-> "playing", note |-> note]],
          calls |-> c.calls \o << Call("createOscillator", note, osc) >>,
          threw |-> FALSE]

\* stop without the presence test: oscillators.current[note].stop() outside
\* the try block is a TypeError when the note has no oscillator.
stop_NoPresenceTest(S, note) ==
  IF note \in DOMAIN S.table
    THEN LET osc == S.table[note] IN
         [ctx   |-> S.ctx,
          table |-> Delete(S.table, note),
          oscs  |-> [S.oscs EXCEPT ![osc].state = "finished"],
          calls |-> << Call("osc.stop", note, osc), Call("delete", note, osc) >>,
          threw |-> FALSE]
    ELSE [ctx |-> S.ctx, table |-> S.table, oscs |-> S.oscs,
          calls |-> << >>, threw |-> TRUE]

\* stop that leaves the entry for the ended event to delete.
stop_NoDelete(S, note) ==
  IF note \in DOMAIN S.table
    THEN LET osc == S.table[note] IN
         [ctx   |-> S.ctx,
          table |-> S.table,
          oscs  |-> [S.oscs EXCEPT ![osc].state = "finished"],
          calls |-> << Call("osc.stop", note, osc) >>,
          threw |-> FALSE]
    ELSE [ctx |-> S.ctx, table |-> S.table, oscs |-> S.oscs,
          calls |-> << >>, threw |-> FALSE]

\* osc.stop() inside try/catch: a playing oscillator stops now, one that has
\* already finished stays finished, and nothing it throws escapes.
stop(S, note) ==
  IF note \in DOMAIN S.table
    THEN LET osc == S.table[note] IN
         [ctx   |-> S.ctx,
          table |-> Delete(S.table, note),
          oscs  |-> [S.oscs EXCEPT ![osc].state = "finished"],
          calls |-> << Call("osc.stop", note, osc), Call("delete", note, osc) >>,
          threw |-> FALSE]
    ELSE [ctx |-> S.ctx, table |-> S.table, oscs |-> S.oscs,
          calls |-> << >>, threw |-> FALSE]

\* An onended that deletes oscillators.current[note] whatever it holds.
onended_Unconditional(S, osc) ==
  [table |-> Delete(S.table, S.oscs[osc].note),
   calls |-> << Call("delete", S.oscs[osc].note, osc) >>]

\* An onended that deletes the note's entry when there is one, its own
\* oscillator or not.
onended_PresenceOnly(S, osc) ==
  LET note == S.oscs[osc].note IN
  IF note \in DOMAIN S.table
    THEN [table |-> Delete(S.table, note),
          calls |-> << Call("delete", note, S.table[note]) >>]
    ELSE [table |-> S.table, calls |-> << >>]

\* An onended that empties the table.
onended_ClearsTable(S, osc) ==
  [table |-> << >>,
   calls |-> << Call("delete", S.oscs[osc].note, osc) >>]

\* An onended that leaves the table alone.
onended_NoCleanup(S, osc) == [table |-> S.table, calls |-> << >>]

\* osc.onended of the oscillator osc that play(note) created.
onended(S, osc) ==
  LET note == S.oscs[osc].note IN
  IF note \in DOMAIN S.table /\ S.table[note] = osc
    THEN [table |-> Delete(S.table, note),
          calls |-> << Call("delete", note, osc) >>]
    ELSE [table |-> S.table, calls |-> << >>]

(***************************************************************************)
(* PianoKeyboard: the input handlers                                       *)
(***************************************************************************)
\* new Set().add(idx): the copy of prev forgotten.
AddKey_NoCopy(prev, idx) == {idx}

\* setActiveKeys(prev => new Set(prev).add(idx))
AddKey(prev, idx) == prev \cup {idx}

\* The release of one key written as the release of all.
RemoveKey_All(prev, idx) == {}

\* setActiveKeys(prev => { newSet = new Set(prev); newSet.delete(idx); ... })
RemoveKey(prev, idx) == prev \ {idx}

\* handleKeyDown without the test for an already pressed key.
KeyDownActs_NoRepeatTest(idx) == idx # -1

\* The condition under which handleKeyDown acts.
KeyDownActs(idx) == idx # -1 /\ idx \notin activeKeys

\* The condition under which handleKeyUp acts.
KeyUpActs(idx) == idx # -1

SetSynth(r) ==
  /\ audioCtxRef' = r.ctx
  /\ oscillators' = r.table
  /\ oscs' = r.oscs
  /\ threw' = r.threw

\* The body shared by handleKeyDown (when it acts) and handlePointerDown.
NoteDown(idx) ==
  LET note == Entry(idx).note IN
  /\ Fits(note)
  /\ \E r \in {play(Synth, note)} :
      /\ activeKeys' = AddKey(activeKeys, idx)
      /\ SetSynth(r)
      /\ calls' = << Call("play", note, -1) >> \o r.calls
                    \o << Call("onNoteDown", note, idx) >>

\* A note-up that leaves the synth alone.
NoteUp_NoStop(idx) ==
  /\ activeKeys' = RemoveKey(activeKeys, idx)
  /\ UNCHANGED << audioCtxRef, oscillators, oscs >>
  /\ threw' = FALSE
  /\ calls' = << Call("onNoteUp", Entry(idx).note, idx) >>

\* A note-up that tells the parent nothing.
NoteUp_Silent(idx) ==
  LET note == Entry(idx).note IN
  \E r \in {stop(Synth, note)} :
      /\ activeKeys' = RemoveKey(activeKeys, idx)
      /\ SetSynth(r)
      /\ calls' = << Call("stop", note, -1) >> \o r.calls

\* The body shared by handleKeyUp (when it acts) and handlePointerUp.
NoteUp(idx) ==
  LET note == Entry(idx).note IN
  \E r \in {stop(Synth, note)} :
      /\ activeKeys' = RemoveKey(activeKeys, idx)
      /\ SetSynth(r)
      /\ calls' = << Call("stop", note, -1) >> \o r.calls
                    \o (IF r.threw THEN << >>
                        ELSE << Call("onNoteUp", note, idx) >>)

Ignored ==
  /\ UNCHANGED << activeKeys, audioCtxRef, oscillators, oscs >>
  /\ calls' = << >>
  /\ threw' = FALSE

HandleKeyDown(code) ==
  LET char == codeToKeyChar(code) IN
  \E idx \in {getNoteIndexFromKey(char)} :
      /\ last' = Event("handleKeyDown", code, idx, 0)
      /\ IF KeyDownActs(idx) THEN NoteDown(idx) ELSE Ignored

HandleKeyUp(code) ==
  LET char == codeToKeyChar(code) IN
  \E idx \in {getNoteIndexFromKey(char)} :
      /\ last' = Event("handleKeyUp", code, idx, 0)
      /\ IF KeyUpActs(idx) THEN NoteUp(idx) ELSE Ignored

\* onMouseDown and onTouchStart of a key.
HandlePointerDown(idx) ==
  /\ last' = Event("handlePointerDown", << >>, idx, 0)
  /\ NoteDown(idx)

\* onMouseUp, onMouseLeave and onTouchEnd of a key: each is bound to
\* handlePointerUp(k.idx) and to nothing else.
HandlePointerUp(idx) ==
  /\ last' = Event("handlePointerUp", << >>, idx, 0)
  /\ NoteUp(idx)

\* A release-all that stops no oscillator.
StopFrom_Nothing(S, i) ==
  [ctx |-> S.ctx, table |-> S.table, oscs |-> S.oscs,
   calls |-> << >>, threw |-> FALSE]

\* KEYBOARD_NOTE_MAP.forEach(key => synth.stop(key.note)) from index i on,
\* ending at the first call that throws.
RECURSIVE StopFrom(_, _)
StopFrom(S, i) ==
  IF i > Len(KEYBOARD_NOTE_MAP) - 1
    THEN [ctx |-> S.ctx, table |-> S.table, oscs |-> S.oscs,
          calls |-> << >>, threw |-> FALSE]
    ELSE LET note == Entry(i).note
             r    == stop(S, note)
             rest == StopFrom(r, i + 1)
         IN  IF r.threw
               THEN [r EXCEPT !.calls = << Call("stop", note, -1) >> \o @]
               ELSE [rest EXCEPT
                       !.calls = << Call("stop", note, -1) >> \o r.calls \o @]

\* A release-all that keeps the pressed keys.
Cleared_Forgotten(prev) == prev

\* The value handleGlobalPointerUp gives setActiveKeys.
Cleared(prev) == {}

\* window mouseup and touchend.
HandleGlobalPointerUp ==
  \E r \in {StopFrom(Synth, 0)} :
  /\ last' = Event("handleGlobalPointerUp", << >>, -1, 0)
  /\ activeKeys' = Cleared(activeKeys)
  /\ SetSynth(r)
  /\ calls' = r.calls

(***************************************************************************)
(* The audio clock and the ended event                                     *)
(***************************************************************************)
\* osc.stop(ctx.currentTime + 0.62) takes effect: the oscillator falls
\* silent on the audio clock; its ended event is queued on the event loop.
AutoStop(osc) ==
  /\ oscs[osc].state = "playing"
  /\ oscs' = [oscs EXCEPT ![osc].state = "finished"]
  /\ last' = Event("autoStop", << >>, -1, osc)
  /\ calls' = << >>
  /\ threw' = FALSE
  /\ UNCHANGED << activeKeys, audioCtxRef, oscillators >>

\* The ended event of a stopped oscillator is delivered, to the closure that
\* holds its note and the oscillator itself; afterwards nothing refers to the
\* oscillator object any more.
Onended(osc) ==
  /\ oscs[osc].state = "finished"
  /\ \E r \in {onended(Synth, osc)} :
       /\ oscillators' = r.table
       /\ calls' = r.calls
  /\ oscs' = [oscs EXCEPT ![osc] = Unused]
  /\ last' = Event("onended", << oscs[osc].note >>, -1, osc)
  /\ threw' = FALSE
  /\ UNCHANGED << activeKeys, audioCtxRef >>

(***************************************************************************)
(* Inputs and specifications                                               *)
(***************************************************************************)
\* KeyboardEvent.code of the physical key that types the character ch.
CodeOf(ch) ==
  IF ch \in {"0","1","2","3","4","5","6","7","8","9"}
    THEN << "D","i","g","i","t", ch >>
    ELSE << "K","e","y", ch >>

BoundCodes == { CodeOf(Entry(i).key) : i \in 0 .. (NumKeys - 1) }

\* An unbound letter, an unbound digit, and a code that is neither.
UnboundCodes == { CodeOf("A"), CodeOf("9"), << "S","p","a","c","e" >> }

KeyCodes == BoundCodes \cup UnboundCodes

PointerKeys == 0 .. (NumKeys - 1)

Next ==
  \/ \E code \in KeyCodes : HandleKeyDown(code)
  \/ \E code \in KeyCodes : HandleKeyUp(code)
  \/ \E idx \in PointerKeys : HandlePointerDown(idx)
  \/ \E idx \in PointerKeys : HandlePointerUp(idx)
  \/ HandleGlobalPointerUp
  \/ \E osc \in OscIds : AutoStop(osc)
  \/ \E osc \in OscIds : Onended(osc)

Spec == Init /\ [][Next]_vars

(***************************************************************************)
(* The pure functions of the file, applied to inputs of their own: the     *)
(* step is recorded in last, with the input as code and the result as idx. *)
(***************************************************************************)
NameAlphabet == {"B", "E", "H", "c", "#", "0", "9"}

\* The registry's note names, and every string up to MaxNameLen characters
\* over NameAlphabet.
NameInputs ==
  { Spelling(Entry(idx).note) : idx \in Indices }
    \cup UNION { [1..n -> NameAlphabet] : n \in 0..MaxNameLen }

\* The empty key and every one-character key: letters of both cases, digits.
KeyInputs ==
  {<< >>} \cup { << LowerCase[k] >> : k \in 1..Len(LowerCase) }
          \cup { << UpperCase[k] >> : k \in 1..Len(UpperCase) }
          \cup { << Digits[k] >> : k \in 1..Len(Digits) }

Applied(op, input, result) ==
  /\ last' = Event(op, input, result, 0)
  /\ UNCHANGED << activeKeys, audioCtxRef, oscillators, oscs, calls, threw >>

ApplyNoteNameToMidi(note) ==
  Applied("noteNameToMidi", note, noteNameToMidi(note))

ApplyNoteToFrequency(idx) ==
  Applied("noteToFrequency", Spelling(Entry(idx).note),
          noteToFrequency(Spelling(Entry(idx).note)).twelfths)

ApplyGetNoteIndexFromKey(key) ==
  Applied("getNoteIndexFromKey", key, getNoteIndexFromKey(key))

\* The render of one key of the registry: a black key gets its offset; the
\* fraction is recorded as idx (numerator) and osc (denominator).
ApplyGetBlackKeyOffset(idx) ==
  \E r \in {getBlackKeyOffset(Entry(idx).note)} :
    /\ last' = Event("getBlackKeyOffset", << Entry(idx).note >>, r.num, r.den)
    /\ UNCHANGED << activeKeys, audioCtxRef, oscillators, oscs, calls, threw >>

PureNext ==
  \/ \E idx \in Indices : ApplyGetBlackKeyOffset(idx)
  \/ \E note \in NameInputs : ApplyNoteNameToMidi(note)
  \/ \E idx \in Indices : ApplyNoteToFrequency(idx)
  \/ \E key \in KeyInputs : ApplyGetNoteIndexFromKey(key)

PureSpec == Init /\ [][PureNext]_vars

\* The audio clock advances and the event loop delivers every queued event.
FairSpec ==
  /\ Spec
  /\ \A osc \in OscIds : WF_vars(AutoStop(osc)) /\ WF_vars(Onended(osc))

TypeOK ==
  /\ activeKeys \subseteq Indices
  /\ audioCtxRef \in {"null", "ctx"}
  /\ DOMAIN oscillators \subseteq NoteNames
  /\ \A n \in DOMAIN oscillators : oscillators[n] \in OscIds
  /\ \A o \in OscIds : oscs[o].state \in {"unused", "playing", "finished"}
  /\ threw \in BOOLEAN

(***************************************************************************)
(* Properties                                                              *)
(***************************************************************************)
Range(seq) == { seq[k] : k \in 1..Len(seq) }

\* The calls named fn a step made.
Made(trace, fn) == { k \in 1..Len(trace) : trace[k][1] = fn }

NoteDownOps == {"handleKeyDown", "handlePointerDown"}
NoteUpOps   == {"handleKeyUp", "handlePointerUp"}

SynthUnchanged == UNCHANGED << audioCtxRef, oscillators, oscs >>

\* The oscillator is the table's entry of some note.
InTable(osc) == \E n \in DOMAIN oscillators : oscillators[n] = osc

Sounding(note) ==
  { o \in OscIds : oscs[o].state = "playing" /\ oscs[o].note = note }

\* C1: at most one live Voice per note: every sounding oscillator of a note
\* is that note's entry of the table, so no note has two; and a play(note)
\* that finds a Voice for the note in the table creates no oscillator and
\* leaves the table as it was.
C1_OneVoicePerNote ==
  /\ [](\A n \in NoteNames :
          /\ Cardinality(Sounding(n)) <= 1
          /\ \A o \in Sounding(n) :
               n \in DOMAIN oscillators /\ oscillators[n] = o)
  /\ [][\A n \in NoteNames :
          (n \in DOMAIN oscillators /\ Call("play", n, -1) \in Range(calls'))
            => /\ Made(calls', "createOscillator") = {}
               /\ oscillators' = oscillators
               /\ oscs' = oscs]_vars

\* A pointer press called play for a note whose Voice was in the table.
C1_Witness ==
  /\ last.op = "handlePointerDown"
  /\ last.idx \in last.before
  /\ Entry(last.idx).note \in DOMAIN oscillators
  /\ calls = << Call("play", Entry(last.idx).note, -1),
                Call("onNoteDown", Entry(last.idx).note, last.idx) >>

C3_KeyRepeatIgnored ==
  [][(last'.op = "handleKeyDown" /\ last'.idx \in activeKeys)
       => /\ activeKeys' = activeKeys
          /\ SynthUnchanged
          /\ calls' = << >>]_vars

\* A key-down arrived for a key that was pressed.
C3_Witness ==
  /\ last.op = "handleKeyDown"
  /\ last.idx \in last.before
  /\ last.after = "handleKeyDown"
  /\ calls = << >>

\* C4: a pointer press on a key whose note is in ActiveNoteSet changes no
\* state and invokes no onNoteDown.
C4_PointerDuplicateIsNoOp ==
  [][(last'.op = "handlePointerDown" /\ last'.idx \in activeKeys)
       => /\ activeKeys' = activeKeys
          /\ SynthUnchanged
          /\ Made(calls', "onNoteDown") = {}]_vars

\* C5: a note-up (key-up or pointer release or leave) for a note that is not
\* in ActiveNoteSet changes neither ActiveNoteSet nor the table and invokes
\* no onNoteUp.
C5_DuplicateNoteUpIsNoOp ==
  [][(last'.op \in NoteUpOps /\ last'.idx \in Indices
        /\ last'.idx \notin activeKeys)
       => /\ activeKeys' = activeKeys
          /\ oscillators' = oscillators
          /\ Made(calls', "onNoteUp") = {}]_vars

\* C6: after a global release-all ActiveNoteSet is empty whatever it held,
\* stop was called for each of the 12 registry notes, and no call raised an
\* error.
C6_ReleaseAllClears ==
  last.op = "handleGlobalPointerUp"
    => /\ activeKeys = {}
       /\ ~threw
       /\ \A i \in Indices : Call("stop", Entry(i).note, -1) \in Range(calls)
       /\ Cardinality(Made(calls, "stop")) = Len(KEYBOARD_NOTE_MAP)

\* A release-all ran with two notes pressed, one of them without a Voice.
C6_Witness ==
  /\ last.op = "handleGlobalPointerUp"
  /\ Cardinality(last.before) >= 2
  /\ Cardinality(Made(calls, "osc.stop")) = 1
  /\ activeKeys = {}

\* C7: a global release-all invokes onNoteUp(note, index) for every note
\* that was in ActiveNoteSet.
C7_ReleaseAllNotifies ==
  last.op = "handleGlobalPointerUp"
    => \A i \in last.before :
         Call("onNoteUp", Entry(i).note, i) \in Range(calls)

\* C8 as stated: a note-up for X right after a note-down for X leaves
\* ActiveNoteSet as it was before the note-down, also when it held X.
C8_RoundTripAnySet ==
  [][\A i \in Indices :
       (/\ last.op \in NoteDownOps /\ last.idx = i
        /\ last'.op \in NoteUpOps /\ last'.idx = i)
         => activeKeys' = last.before]_vars

\* C8 amended: a note-up for X right after a note-down for X leaves
\* ActiveNoteSet as it was before the note-down when that set did not hold
\* X, and leaves that set less X when it did.
C8_RoundTrip ==
  [][\A i \in Indices :
       (/\ last.op \in NoteDownOps /\ last.idx = i
        /\ last'.op \in NoteUpOps /\ last'.idx = i)
         => /\ i \notin last.before => activeKeys' = last.before
            /\ i \in last.before => activeKeys' = last.before \ {i}]_vars

\* A note-up came right after the note-down of its key, with another key
\* held throughout.
C8_Witness ==
  /\ last.op \in NoteUpOps
  /\ last.after \in NoteDownOps
  /\ last.idx \notin activeKeys
  /\ activeKeys # {}
  /\ activeKeys = last.before \ {last.idx}

\* The codes of the keys the registry binds.
RegistryCodes == { CodeOf(Entry(i).key) : i \in Indices }

\* C9: a key-down or key-up whose code is that of no registry key changes
\* neither ActiveNoteSet nor the synth and makes no call: no onNoteDown, no
\* onNoteUp.
C9_UnmappedKeyIsNoOp ==
  [][(last'.op \in {"handleKeyDown", "handleKeyUp"}
        /\ last'.code \notin RegistryCodes)
       => /\ activeKeys' = activeKeys
          /\ SynthUnchanged
          /\ calls' = << >>]_vars

\* An unmapped key went down while a note was pressed and sounding.
C9_Witness ==
  /\ last.op = "handleKeyDown"
  /\ last.code = << "S","p","a","c","e" >>
  /\ activeKeys # {}
  /\ oscillators # << >>
  /\ calls = << >>

\* C10: a sounding Voice in the table is eventually out of the table (by its
\* completion callback when no stop comes first), and whenever a note has no
\* Voice in the table stop(note) changes nothing and raises nothing.
C10_VoiceEventuallyRemoved ==
  /\ \A o \in OscIds :
       (oscs[o].state = "playing" /\ InTable(o)) ~> ~InTable(o)
  /\ [](\A n \in NoteNames :
          n \notin DOMAIN oscillators
            => stop(Synth, n) =
                 [ctx |-> audioCtxRef, table |-> oscillators, oscs |-> oscs,
                  calls |-> << >>, threw |-> FALSE])

\* A completion callback took its Voice out of the table: no stop had.
C10_Witness ==
  /\ last.op = "onended"
  /\ Made(calls, "delete") # {}
  /\ ~InTable(last.osc)

\* The deletions of the table entry of oscillator o a step made.
Deletions(trace, o) ==
  { k \in 1..Len(trace) : trace[k][1] = "delete" /\ trace[k][3] = o }

\* C11: the table entry of a Voice is removed exactly once, whichever of
\* stop(note) and the completion callback comes first: a step deletes the
\* entry of an oscillator once and only while the oscillator is in the
\* table, after the deletion it is not in the table, and when the callback
\* has run the oscillator is out of the table.
C11_RemovedExactlyOnce ==
  /\ [][\A o \in OscIds :
          /\ Deletions(calls', o) # {}
               => /\ InTable(o)
                  /\ Cardinality(Deletions(calls', o)) = 1
                  /\ \A n \in DOMAIN oscillators' : oscillators'[n] # o
          /\ (last'.op = "onended" /\ last'.osc = o /\ ~InTable(o))
               => Deletions(calls', o) = {}]_vars
  /\ [](\A o \in OscIds :
          (last.op = "onended" /\ last.osc = o) => ~InTable(o))

\* The completion callback of a Voice came after stop(note) had removed it
\* and deleted nothing: the note has no entry.
C11_Witness ==
  /\ last.op = "onended"
  /\ calls = << >>
  /\ last.code[1] \notin DOMAIN oscillators
  /\ oscs[last.osc].state = "unused"

\* The calls of a step that touch the oscillator of note n.
Touches(trace, n) ==
  { k \in 1..Len(trace) :
      trace[k][1] \in {"osc.stop", "delete"} /\ trace[k][2] = n }

\* C12: a stop(note) for a note that has no Voice in the table stops and
\* deletes nothing for that note, leaves the note without an entry and
\* raises nothing; when it is the one stop of a note-up, the table and the
\* oscillators are exactly as before.
C12_StopAbsentIsNoOp ==
  [][\A n \in NoteNames :
       (Call("stop", n, -1) \in Range(calls') /\ n \notin DOMAIN oscillators)
         => /\ Touches(calls', n) = {}
            /\ n \notin DOMAIN oscillators'
            /\ ~threw'
            /\ last'.op \in NoteUpOps
                 => oscillators' = oscillators /\ oscs' = oscs]_vars

\* A note-up called stop for a held note whose Voice had already completed
\* and left the table, while another note still had its Voice.
C12_Witness ==
  /\ last.op \in NoteUpOps
  /\ last.idx \in last.before
  /\ calls = << Call("stop", Entry(last.idx).note, -1),
                Call("onNoteUp", Entry(last.idx).note, last.idx) >>
  /\ oscillators # << >>
  /\ ~threw

\* C13: when a release-all comes right after a pointer press on a key, the
\* key's note is out of ActiveNoteSet, the Voice that was its table entry
\* has been stopped by that step and is out of the table, no Voice of the
\* note is sounding, and no note at all is left pressed.
C13_ReleaseOutsideKey ==
  [][\A i \in Indices :
       (/\ last.op = "handlePointerDown" /\ last.idx = i
        /\ last'.op = "handleGlobalPointerUp")
         => /\ i \in activeKeys
            /\ i \notin activeKeys'
            /\ activeKeys' = {}
            /\ Entry(i).note \in DOMAIN oscillators
            /\ Entry(i).note \notin DOMAIN oscillators'
            /\ Call("osc.stop", Entry(i).note, oscillators[Entry(i).note])
                 \in Range(calls')
            /\ oscs'[oscillators[Entry(i).note]].state = "finished"
            /\ \A o \in OscIds :
                 oscs'[o].note = Entry(i).note => oscs'[o].state # "playing"]_vars

\* A release-all ended the pointer press on the black key C#4, the only
\* pressed key, and stopped its Voice.
C13_Witness ==
  /\ last.op = "handleGlobalPointerUp"
  /\ last.after = "handlePointerDown"
  /\ last.before = {1}
  /\ Entry(1).type = "black"
  /\ activeKeys = {}
  /\ \E o \in OscIds :
       /\ Call("osc.stop", Entry(1).note, o) \in Range(calls)
       /\ oscs[o].state = "finished"
  /\ Entry(1).note \notin DOMAIN oscillators

\* The step is a press event for key i: the key-down of its code or a
\* pointer press on it.
PressOf(e, i) ==
  \/ e.op = "handleKeyDown" /\ e.code = CodeOf(Entry(i).key)
  \/ e.op = "handlePointerDown" /\ e.idx = i

\* The step is a release event for key i: the key-up of its code, a pointer
\* release or leave on it, or a release-all.
ReleaseOf(e, i) ==
  \/ e.op = "handleKeyUp" /\ e.code = CodeOf(Entry(i).key)
  \/ e.op = "handlePointerUp" /\ e.idx = i
  \/ e.op = "handleGlobalPointerUp"

\* C14: a note is in ActiveNoteSet exactly when a press event for it has
\* been processed and no release event for it since. Holding is what the
\* delivered events say: the set is empty at the start, a press event puts
\* the note in, a release event takes it out, and every other step leaves
\* its membership alone.
C14_ActiveIffHeld ==
  /\ activeKeys = {}
  /\ [][\A i \in Indices :
          (i \in activeKeys') <=>
             IF PressOf(last', i) THEN TRUE
             ELSE IF ReleaseOf(last', i) THEN FALSE
             ELSE i \in activeKeys]_vars

\* A pointer release took one note out of the set while the other, pressed
\* earlier and not released since, stayed in it.
C14_Witness ==
  /\ last.op = "handlePointerUp"
  /\ last.idx \in last.before
  /\ last.idx \notin activeKeys
  /\ activeKeys = last.before \ {last.idx}
  /\ Cardinality(activeKeys) = 1

\* The calls of a step to the callbacks onNoteDown and onNoteUp, in order.
Callbacks(trace) ==
  SelectSeq(trace, LAMBDA c : c[1] \in {"onNoteDown", "onNoteUp"})

\* C15: the key-down of the key of registry entry i, when the note is
\* released, makes exactly one callback, onNoteDown(registry[i].note, i), and
\* adds i to ActiveNoteSet; the key-up of that key, when the note is pressed,
\* makes exactly one callback, onNoteUp with the same (note, i), and removes
\* i. For Q these are ("C4", 0).
C15_KeyCallbacks ==
  /\ [][\A i \in Indices :
          /\ (/\ last'.op = "handleKeyDown"
              /\ last'.code = CodeOf(Entry(i).key)
              /\ i \notin activeKeys)
               => /\ Callbacks(calls') = << Call("onNoteDown", Entry(i).note, i) >>
                  /\ activeKeys' = activeKeys \cup {i}
          /\ (/\ last'.op = "handleKeyUp"
              /\ last'.code = CodeOf(Entry(i).key)
              /\ i \in activeKeys)
               => /\ Callbacks(calls') = << Call("onNoteUp", Entry(i).note, i) >>
                  /\ activeKeys' = activeKeys \ {i}]_vars
  /\ [](last.code = << "K","e","y","Q" >> =>
          /\ (last.op = "handleKeyDown" /\ 0 \notin last.before)
               => Callbacks(calls) = << Call("onNoteDown", "C4", 0) >>
          /\ (last.op = "handleKeyUp" /\ 0 \in last.before)
               => Callbacks(calls) = << Call("onNoteUp", "C4", 0) >>)

\* Q was released right after its key-down: onNoteUp("C4", 0) was called and
\* C4 left ActiveNoteSet.
C15_Witness ==
  /\ last.op = "handleKeyUp"
  /\ last.after = "handleKeyDown"
  /\ last.code = << "K","e","y","Q" >>
  /\ 0 \in last.before
  /\ 0 \notin activeKeys
  /\ Callbacks(calls) = << Call("onNoteUp", "C4", 0) >>

(***************************************************************************)
(* C16: the registry has exactly 12 entries with pairwise-distinct input   *)
(* keys, starts at C and ascends by pitch: the MIDI number computed for    *)
(* the i-th entry (from 0) is 60 + i, so A4 is 69, its frequency exponent  *)
(* (midi - 69)/12 is 0 and its frequency is exactly 440.                   *)
(***************************************************************************)
C16_RegistryPitches ==
  /\ Len(KEYBOARD_NOTE_MAP) = 12
  /\ \A i, j \in Indices : Entry(i).key = Entry(j).key => i = j
  /\ Entry(0).label = "C"
  /\ \A i \in Indices :
       /\ last.op = "noteNameToMidi" /\ last.code = Spelling(Entry(i).note)
            => last.idx = 60 + i
       /\ last.op = "noteToFrequency" /\ last.code = Spelling(Entry(i).note)
            => last.idx = (60 + i) - 69
  /\ last.op = "noteToFrequency" /\ last.code = << "A", "4" >>
       => /\ noteNameToMidi(last.code) = 69
          /\ last.idx = 0
          /\ noteToFrequency(last.code) = [hz |-> 440, twelfths |-> 0]

C16_Witness ==
  /\ last.op = "noteToFrequency"
  /\ last.code = Spelling("A4")
  /\ last.idx = 0

(***************************************************************************)
(* C17: for every note name of the form letter A-G, optional #, one digit, *)
(* noteNameToMidi returns 12*(octave+1) + semitone(letter) + (1 if sharp)  *)
(* with semitone(C,D,E,F,G,A,B) = (0,2,4,5,7,9,11); for every other name   *)
(* it returns 60.                                                          *)
(***************************************************************************)
Semitone(letter) ==
  CASE letter = "C" -> 0 [] letter = "D" -> 2 [] letter = "E" -> 4
    [] letter = "F" -> 5 [] letter = "G" -> 7 [] letter = "A" -> 9
    [] letter = "B" -> 11

IsNoteName(s) ==
  /\ Len(s) \in {2, 3}
  /\ s[1] \in {"A", "B", "C", "D", "E", "F", "G"}
  /\ Len(s) = 3 => s[2] = "#"
  /\ IsDigit(s[Len(s)])

ChromaticIndex(s) ==
  IF IsNoteName(s)
    THEN 12 * (parseInt(s[Len(s)]) + 1) + Semitone(s[1])
           + (IF Len(s) = 3 THEN 1 ELSE 0)
    ELSE 60

C17_ChromaticIndex ==
  last.op = "noteNameToMidi" => last.idx = ChromaticIndex(last.code)

(***************************************************************************)
(* C18: getNoteIndexFromKey is case-insensitive and total: for every       *)
(* single character the lower-case and the upper-case form give the same   *)
(* result, the result is the index of the entry whose key equals the       *)
(* character ignoring case, and it is -1 for every unbound key and for the *)
(* empty key.                                                              *)
(***************************************************************************)
OtherCase(c) ==
  IF \E k \in 1..Len(LowerCase) : LowerCase[k] = c
    THEN UpperCase[CHOOSE k \in 1..Len(LowerCase) : LowerCase[k] = c]
  ELSE IF \E k \in 1..Len(UpperCase) : UpperCase[k] = c
    THEN LowerCase[CHOOSE k \in 1..Len(UpperCase) : UpperCase[k] = c]
  ELSE c

BoundTo(c) == { i \in Indices : Entry(i).key \in {c, OtherCase(c)} }

C18_LookupIgnoresCase ==
  last.op = "getNoteIndexFromKey" =>
    /\ last.code = << >> => last.idx = -1
    /\ Len(last.code) = 1 =>
         /\ getNoteIndexFromKey(<< OtherCase(last.code[1]) >>) = last.idx
         /\ BoundTo(last.code[1]) = {} => last.idx = -1
         /\ BoundTo(last.code[1]) # {} => BoundTo(last.code[1]) = {last.idx}

C18_Witness ==
  /\ last.op = "getNoteIndexFromKey"
  /\ last.code = << "q" >>
  /\ last.idx = 0

\* The oscillators a step stopped for the note: the n of its osc.stop calls.
Stopped(trace, note) ==
  { trace[k][3] : k \in { j \in Made(trace, "osc.stop") : trace[j][2] = note } }

\* C19: stop(note) takes the Voice out of the table in the step that stops
\* it, not only when its ended event is delivered: after a step that stopped
\* the note's oscillator the note has no entry while the ended event of that
\* oscillator is still to come; and a play(note) in the very next step
\* creates a new oscillator, other than the stopped one, which becomes the
\* note's entry and sounds, the ended event of the old one still pending.
C19_StopRemovesAtOnce ==
  /\ [](\A n \in NoteNames : \A o \in Stopped(calls, n) :
          /\ n \notin DOMAIN oscillators
          /\ oscs[o] = [state |-> "finished", note |-> n])
  /\ [][\A n \in NoteNames : \A o \in Stopped(calls, n) :
          Call("play", n, -1) \in Range(calls')
            => /\ Cardinality(Made(calls', "createOscillator")) = 1
               /\ \E p \in OscIds \ {o} :
                    /\ Call("createOscillator", n, p) \in Range(calls')
                    /\ n \in DOMAIN oscillators' /\ oscillators'[n] = p
                    /\ oscs'[p] = [state |-> "playing", note |-> n]
               /\ oscs'[o] = [state |-> "finished", note |-> n]]_vars

\* A note-down came right after the step that stopped the note's Voice: the
\* note has a new Voice while the stopped one still awaits its ended event.
C19_Witness ==
  /\ last.op \in NoteDownOps
  /\ last.stopped
  /\ Made(calls, "createOscillator") # {}
  /\ \E o \in OscIds :
       /\ oscs[o] = [state |-> "finished", note |-> Entry(last.idx).note]
       /\ ~InTable(o)
  /\ Sounding(Entry(last.idx).note) # {}

\* C20: the ended callback of a Voice V of note N never removes another,
\* newer Voice of N: whatever stop(N) and play(N) did before it runs, it
\* deletes the entry of N only when that entry is V, it deletes nothing
\* else, and every entry that is not V is left as it was.
C20_CallbackSparesNewerVoice ==
  [][\A o \in OscIds :
       (last'.op = "onended" /\ last'.osc = o)
         => /\ Made(calls', "delete") # {}
                 => /\ oscs[o].note \in DOMAIN oscillators
                    /\ oscillators[oscs[o].note] = o
                    /\ calls' = << Call("delete", oscs[o].note, o) >>
            /\ \A n \in DOMAIN oscillators :
                 oscillators[n] # o
                   => /\ n \in DOMAIN oscillators'
                      /\ oscillators'[n] = oscillators[n]
            /\ (oscs[o].note \in DOMAIN oscillators
                  /\ oscillators[oscs[o].note] # o)
                 => /\ oscillators' = oscillators
                    /\ calls' = << >>]_vars

\* The ended callback of a stopped Voice ran while a newer Voice of its note
\* was sounding, and left it in the table.
C20_Witness ==
  /\ last.op = "onended"
  /\ calls = << >>
  /\ last.code[1] \in DOMAIN oscillators
  /\ oscillators[last.code[1]] # last.osc
  /\ oscs[oscillators[last.code[1]]] =
       [state |-> "playing", note |-> last.code[1]]

\* C21: when the pointer leaves a key whose note is pressed (onMouseLeave,
\* which runs handlePointerUp of that key), the note goes from pressed to
\* released: it is removed from ActiveNoteSet and nothing else is,
\* stop(note) is called and leaves the note without a Voice, and
\* onNoteUp(note, index) is called exactly once.
C21_LeaveReleases ==
  [][\A i \in Indices :
       (/\ last'.op = "handlePointerUp"
        /\ last'.idx = i
        /\ i \in activeKeys)
         => /\ activeKeys' = activeKeys \ {i}
            /\ Cardinality(Made(calls', "stop")) = 1
            /\ Call("stop", Entry(i).note, -1) \in Range(calls')
            /\ Entry(i).note \notin DOMAIN oscillators'
            /\ Cardinality(Made(calls', "onNoteUp")) = 1
            /\ Call("onNoteUp", Entry(i).note, i) \in Range(calls')]_vars

\* The pointer left a pressed key whose Voice was sounding, another key
\* being held.
C21_Witness ==
  /\ last.op = "handlePointerUp"
  /\ last.idx \in last.before
  /\ activeKeys = last.before \ {last.idx}
  /\ activeKeys # {}
  /\ Made(calls, "osc.stop") # {}
  /\ Made(calls, "onNoteUp") # {}

(***************************************************************************)
(* C22: each of the five black keys C#, D#, F#, G#, A# has its centre on   *)
(* the boundary between its two white neighbours, at (leftWhiteIndex+1)/7  *)
(* of the keyboard's width for the left neighbours 0, 1, 3, 4, 5; no black *)
(* key is placed between E and F or between B and C.                       *)
(***************************************************************************)
LeftWhiteIndex(note) ==
  CASE note = "C#4" -> 0 [] note = "D#4" -> 1 [] note = "F#4" -> 3
    [] note = "G#4" -> 4 [] note = "A#4" -> 5 [] OTHER -> -1

\* The centre of the key whose offset is the fraction num/den of a percent
\* lies at k/7 of the width: no part in black-key widths, and
\* num/den percent = 100 * k/7 percent.
CentredAt(num, den, k) ==
  LET c == blackKeyCentre(styleLeft(Frac(num, den))) IN
  /\ c.blackKeyWidths.num = 0
  /\ den # 0
  /\ c.percent.num * 7 = 100 * k * c.percent.den

C22_BlackKeyCentres ==
  last.op = "getBlackKeyOffset" =>
    /\ LeftWhiteIndex(last.code[1]) # -1
         => CentredAt(last.idx, last.osc, LeftWhiteIndex(last.code[1]) + 1)
    /\ LeftWhiteIndex(last.code[1]) = -1
         => << last.idx, last.osc >> = << Null.num, Null.den >>

\* C23: the audio context is acquired lazily: there is none at startup; the
\* first step that calls play creates it; once there is one it stays and no
\* other is created, so at most one is ever created; and a step that calls
\* no play (note-up, release-all, an ignored key, the audio clock, the ended
\* event) creates none.
C23_LazyAudioContext ==
  /\ [](last.op = "mount" => audioCtxRef = "null")
  /\ [](audioCtxRef = "null" => \A o \in OscIds : oscs[o] = Unused)
  /\ [][/\ Cardinality(Made(calls', "new AudioContext")) <= 1
        /\ Made(calls', "new AudioContext") # {}
             => /\ audioCtxRef = "null"
                /\ audioCtxRef' = "ctx"
                /\ Made(calls', "play") # {}
        /\ (audioCtxRef = "null" /\ Made(calls', "play") # {})
             => Made(calls', "new AudioContext") # {}
        /\ audioCtxRef = "ctx"
             => /\ audioCtxRef' = "ctx"
                /\ Made(calls', "new AudioContext") = {}
        /\ Made(calls', "play") = {} => audioCtxRef' = audioCtxRef]_vars

\* A second play, after a release-all, found the context the first play had
\* created and created none.
C23_Witness ==
  /\ last.op \in NoteDownOps
  /\ last.stopped
  /\ last.after = ""
  /\ Made(calls, "play") # {}
  /\ Made(calls, "createOscillator") # {}
  /\ Made(calls, "new AudioContext") = {}
  /\ audioCtxRef = "ctx"

\* The indices a step passed to the callback fn.
Notified(trace, fn) == { trace[k][3] : k \in Made(trace, fn) }

\* C24: the set of pressed notes that the parent keeps from the callbacks
\* alone (add on onNoteDown, remove on onNoteUp) equals ActiveNoteSet after
\* every sequence of events. Both sets are empty at the start, so they agree
\* after every sequence exactly when every step changes ActiveNoteSet as
\* its callbacks change the parent's set.
C24_CallbacksMirrorSet ==
  [][activeKeys' = (activeKeys \cup Notified(calls', "onNoteDown"))
                     \ Notified(calls', "onNoteUp")]_vars

\* C25: with every handler taken as one step, every note that has a Voice in
\* the table is in ActiveNoteSet: no Voice is kept for a released note.
C25_VoiceImpliesPressed ==
  \A n \in DOMAIN oscillators :
    \E i \in activeKeys : Entry(i).note = n

\* A key-up left one of two held notes with its Voice and took the other's.
C25_Witness ==
  /\ last.op = "handleKeyUp"
  /\ Made(calls, "osc.stop") # {}
  /\ activeKeys # {}
  /\ DOMAIN oscillators = { Entry(i).note : i \in activeKeys }

\* C26: the natural completion of a Voice (the scheduled stop taking effect,
\* then its ended callback) changes nothing but the table's entry of that
\* note: ActiveNoteSet stays as it is, so a held key stays in it after its
\* tone has ended; no onNoteDown or onNoteUp is called; the entries of the
\* other notes and the other oscillators are as before; the scheduled stop
\* itself leaves the whole table as it is.
C26_CompletionFrame ==
  [][\A o \in OscIds :
       (last'.op \in {"autoStop", "onended"} /\ last'.osc = o)
         => /\ activeKeys' = activeKeys
            /\ Made(calls', "onNoteDown") = {}
            /\ Made(calls', "onNoteUp") = {}
            /\ audioCtxRef' = audioCtxRef
            /\ DOMAIN oscillators' \subseteq DOMAIN oscillators
            /\ \A n \in DOMAIN oscillators :
                 n # oscs[o].note
                   => /\ n \in DOMAIN oscillators'
                      /\ oscillators'[n] = oscillators[n]
            /\ \A p \in OscIds \ {o} : oscs'[p] = oscs[p]
            /\ last'.op = "autoStop" => oscillators' = oscillators]_vars

\* The ended callback of a Voice that ran its full length removed its entry
\* while its key was still held and another note's Voice was in the table.
C26_Witness ==
  /\ last.op = "onended"
  /\ calls = << Call("delete", last.code[1], last.osc) >>
  /\ \E i \in activeKeys : Entry(i).note = last.code[1]
  /\ last.code[1] \notin DOMAIN oscillators
  /\ DOMAIN oscillators # {}

\* C27: a note-down or note-up for a note X, from the keyboard or the
\* pointer, leaves every other note Y as it was: Y is in ActiveNoteSet after
\* the step exactly when it was before, and Y's entry of the table, there or
\* not, is the same.
C27_OtherNotesUntouched ==
  [][\A i \in Indices :
       (last'.op \in NoteDownOps \cup NoteUpOps /\ last'.idx = i)
         => \A j \in Indices \ {i} :
              /\ j \in activeKeys' <=> j \in activeKeys
              /\ Entry(j).note \in DOMAIN oscillators'
                   <=> Entry(j).note \in DOMAIN oscillators
              /\ Entry(j).note \in DOMAIN oscillators
                   => oscillators'[Entry(j).note] = oscillators[Entry(j).note]]_vars

\* A note-down created a Voice while another key was held with its Voice in
\* the table.
C27_Witness ==
  /\ last.op \in NoteDownOps
  /\ last.idx \notin last.before
  /\ Made(calls, "createOscillator") # {}
  /\ \E j \in activeKeys \ {last.idx} :
       /\ j \in last.before
       /\ Entry(j).note \in DOMAIN oscillators

====
